---- MODULE Spec2Model ----
(***************************************************************************)
(* Voice-clone orchestration of backend/generate.py: clone_voice and the   *)
(* fallback chain behind it (extend_short_audio, the OpenVoice backend in  *)
(* online and offline mode, create_minimal_voice_clone,                    *)
(* simple_voice_cloning, basic_voice_cloning_fallback, verbatim copy).     *)
(*                                                                         *)
(* Text is modelled as sequences of one-character strings so that the      *)
(* keyword classification (`keyword in error_msg.lower()`) is computed on  *)
(* the text the code really inspects: str() of the subprocess exception,   *)
(* which is built from the command line (hence the file paths) and the     *)
(* exit kind, and does not contain the backend's stderr.                   *)
(* Durations are integers in milliseconds.                                 *)
(***************************************************************************)
EXTENDS Integers, Sequences, FiniteSets, TLC

(***************************************************************************)
(* Bounds of the model.                                                    *)
(***************************************************************************)
MaxCalls == 2
MaxDurSteps == 4
DurStep == 1500

(***************************************************************************)
(* Program constants.                                                      *)
(***************************************************************************)
MIN_TTS_MS == 3000
MIN_REF_MS == 5000

(***************************************************************************)
(* Text literals.                                                          *)
(***************************************************************************)
(* "localentrynotfound" *)
kw_localentrynotfound ==
  <<"l","o","c","a","l","e","n","t","r","y","n","o","t","f","o","u","n","d">>

(* "offlinemode" *)
kw_offlinemode ==
  <<"o","f","f","l","i","n","e","m","o","d","e">>

(* "cannot reach" *)
kw_cannot_reach ==
  <<"c","a","n","n","o","t"," ","r","e","a","c","h">>

(* "connection" *)
kw_connection ==
  <<"c","o","n","n","e","c","t","i","o","n">>

(* "ssl" *)
kw_ssl ==
  <<"s","s","l">>

(* "certificate" *)
kw_certificate ==
  <<"c","e","r","t","i","f","i","c","a","t","e">>

(* "too short" *)
kw_too_short ==
  <<"t","o","o"," ","s","h","o","r","t">>

(* "assertionerror" *)
kw_assertionerror ==
  <<"a","s","s","e","r","t","i","o","n","e","r","r","o","r">>

(* "num_splits > 0" *)
kw_num_splits ==
  <<"n","u","m","_","s","p","l","i","t","s"," ",">"," ","0">>

(* "Command '['python', '-m', 'openvoice_cli', 'single', '-i', '" *)

(* "', '-r', '" *)

(* "', '-o', '" *)

(* "']'" *)

(* " returned non-zero exit status 1." *)

(* " timed out after 120 seconds" *)

(* "tts/" *)

(* "voice_reference/" *)

(* "cloned_voices/" *)

(* ".wav" *)
sfx_wav ==
  <<".","w","a","v">>

(* "_reference.wav" *)

(* "_extended.wav" *)

(* "Atul" *)
name_Atul ==
  <<"A","t","u","l">>

(* "Kessler" *)

(* "Too Short" *)

(* "LocalEntryNotFound: cannot reach huggingface.co" *)
err_network ==
  <<"L","o","c","a","l","E","n","t","r","y","N","o","t","F","o","u","n","d",":"," ","c","a","n","n","o","t"," ","r","e","a","c","h"," ","h","u","g","g","i","n","g","f","a","c","e",".","c","o">>

(* "AssertionError: input audio is too short" *)

(* "RuntimeError: out of memory" *)

(***************************************************************************)
(* String operations of the Python code.                                   *)
(***************************************************************************)
UpperToLower ==
  ( "A" :> "a" @@ "B" :> "b" @@ "C" :> "c" @@ "D" :> "d" @@ "E" :> "e" @@
    "F" :> "f" @@ "G" :> "g" @@ "H" :> "h" @@ "I" :> "i" @@ "J" :> "j" @@
    "K" :> "k" @@ "L" :> "l" @@ "M" :> "m" @@ "N" :> "n" @@ "O" :> "o" @@
    "P" :> "p" @@ "Q" :> "q" @@ "R" :> "r" @@ "S" :> "s" @@ "T" :> "t" @@
    "U" :> "u" @@ "V" :> "v" @@ "W" :> "w" @@ "X" :> "x" @@ "Y" :> "y" @@
    "Z" :> "z" )

\* str.lower()
lower(s) ==
  [i \in 1..Len(s) |-> IF s[i] \in DOMAIN UpperToLower THEN UpperToLower[s[i]] ELSE s[i]]

\* Python's `kw in s` on strings
Contains(s, kw) ==
  \E i \in 0..(Len(s) - Len(kw)) : SubSeq(s, i + 1, i + Len(kw)) = kw

\* os.path.splitext(p)[0]: the path without its last extension
splitext_base(p) ==
  LET dots    == {i \in 1..Len(p) : p[i] = "."}
      slashes == {i \in 1..Len(p) : p[i] = "/"}
      lastDot == IF dots = {} THEN 0 ELSE CHOOSE i \in dots : \A j \in dots : j <= i
      lastSep == IF slashes = {} THEN 0 ELSE CHOOSE i \in slashes : \A j \in slashes : j <= i
  IN  IF lastDot > lastSep + 1 THEN SubSeq(p, 1, lastDot - 1) ELSE p

(***************************************************************************)
(* Paths of one call, built from a name as generate_progress builds them.  *)
(***************************************************************************)
tts_wav_path(n)       == <<"t","t","s","/">> \o n \o sfx_wav
reference_wav_path(n) == <<"v","o","i","c","e","_","r","e","f","e","r","e","n","c","e","/">> \o n \o <<"_","r","e","f","e","r","e","n","c","e",".","w","a","v">>
cloned_wav_path(n)    == <<"c","l","o","n","e","d","_","v","o","i","c","e","s","/">> \o n \o sfx_wav

\* extended_path = f"{base_name}_extended.wav"
extended_path_same_name(p) == p

extended_path(p) == splitext_base(p) \o <<"_","e","x","t","e","n","d","e","d",".","w","a","v">>

\* the path a result of extend_short_audio names
PathOf(p, ext) == IF ext.path = "extended" THEN extended_path(p) ELSE p

\* str(CalledProcessError) / str(TimeoutExpired) of the backend invocation:
\* the command line and the exit kind; stderr is not captured and not in it
str_error(kind, in_tts, in_ref, out_path) ==
  <<"C","o","m","m","a","n","d"," ","'","[","'","p","y","t","h","o","n","'",","," ","'","-","m","'",","," ","'","o","p","e","n","v","o","i","c","e","_","c","l","i","'",","," ","'","s","i","n","g","l","e","'",","," ","'","-","i","'",","," ","'">> \o in_tts \o <<"'",","," ","'","-","r","'",","," ","'">> \o in_ref \o <<"'",","," ","'","-","o","'",","," ","'">> \o out_path
    \o <<"'","]","'">> \o (IF kind = "timeout" THEN <<" ","t","i","m","e","d"," ","o","u","t"," ","a","f","t","e","r"," ","1","2","0"," ","s","e","c","o","n","d","s">>
          ELSE IF kind = "timeout60" THEN <<" ","t","i","m","e","d"," ","o","u","t"," ","a","f","t","e","r"," ","6","0"," ","s","e","c","o","n","d","s">>
          ELSE <<" ","r","e","t","u","r","n","e","d"," ","n","o","n","-","z","e","r","o"," ","e","x","i","t"," ","s","t","a","t","u","s"," ","1",".">>)

(***************************************************************************)
(* Failure classification of clone_voice.                                  *)
(***************************************************************************)

IsNetworkErrorAlways(msg) == TRUE

\* any(keyword in error_msg.lower() for keyword in [...network...])
IsNetworkError(msg) ==
  \E kw \in {kw_localentrynotfound, kw_offlinemode, kw_cannot_reach, kw_connection, kw_ssl, kw_certificate} : Contains(lower(msg), kw)

IsShortAudioErrorAlways(msg) == TRUE

\* any(keyword in error_msg.lower() for keyword in ["too short", ...])
IsShortAudioError(msg) ==
  \E kw \in {kw_too_short, kw_assertionerror, kw_num_splits} : Contains(lower(msg), kw)

(***************************************************************************)
(* extend_short_audio as a function of the asset, the threshold and the    *)
(* outcomes of the external commands.                                      *)
(***************************************************************************)
Abs(n) == IF n < 0 THEN -n ELSE n

Min(a, b) == IF a < b THEN a ELSE b

trunc_div_rounding_up(n, den) ==
  IF Abs(n) % Abs(den) = 0 THEN Abs(n) \div Abs(den) ELSE Abs(n) \div Abs(den) + 1

\* int(x) of the quotient n / den: truncation towards zero
trunc_div(n, den) ==
  IF (n >= 0) = (den > 0) THEN Abs(n) \div Abs(den) ELSE -(Abs(n) \div Abs(den))

repeat_count_without_one(min_duration, duration) ==
  trunc_div(min_duration, duration)

\* line 1290: repeat_count = int((min_duration / duration) + 1)
repeat_count(min_duration, duration) ==
  trunc_div(min_duration + duration, duration)

loop_count_as_repeat(n) == n

\* line 1315: aloop=loop={repeat_count-1}
loop_count(n) == n - 1

needs_extension_inclusive(duration, min_duration) == duration <= min_duration

\* line 1286: if duration < min_duration
needs_extension(duration, min_duration) == duration < min_duration

AfterExtendFailsPropagates == "raised"

\* lines 1326-1328: except Exception as e: print(...); return audio_path
AfterExtendFails == "returned"

\* lines 1278-1283: how the duration query ends
\*   no_binary     ffprobe cannot be started (FileNotFoundError)
\*   nonzero_exit  ffprobe exits non-zero (CalledProcessError): missing or unreadable file
\*   unparsable    ffprobe prints nothing or no number (ValueError in float())
\*   value         a number is parsed
probe(asset, probeOk) ==
  IF ~probeOk THEN "no_binary"
  ELSE IF asset.state \in {"missing", "empty"} THEN "nonzero_exit"
  ELSE IF asset.state = "no_duration" THEN "unparsable"
  ELSE "value"

\* One run of extend_short_audio on the file at `path`: what it returns and
\* what it does on the way.
\*   ret      the returned path          ext      "orig" / "extended"
\*   dur      duration of the returned file
\*   kind     how the probe ended        counted  whether repeat_count was computed
\*   repeat   the repeat count           ran      the transform commands run
\*   written  files created or written   left     created files still present at return
\*   end      "returned" / "raised"
\*   concat   how the concat command ended: "none" (not run) / "zero" / "nonzero"
\*   loop     how the aloop command ended, likewise
\*   loops    the loop= argument of the aloop command, loop_t its -t argument
extend_effects(path, asset, min_duration, env, list_file) ==
  LET kind == probe(asset, env.probeOk)
      d    == asset.dur
      rc   == repeat_count(min_duration, d)
      ep   == extended_path(path)
      same == [ret |-> path, ext |-> "orig", dur |-> d, kind |-> kind,
               counted |-> FALSE, repeat |-> 0, ran |-> {}, written |-> {},
               left |-> {}, end |-> "returned",
               concat |-> "none", loop |-> "none", loops |-> 0, loop_t |-> 0]
      made == [ret |-> ep, ext |-> "extended",
               dur |-> IF rc >= 1 THEN Min(min_duration, rc * d) ELSE min_duration,
               kind |-> kind, counted |-> TRUE, repeat |-> rc,
               ran |-> {"concat"}, written |-> {list_file, ep},
               left |-> {ep}, end |-> "returned",
               concat |-> "zero", loop |-> "none", loops |-> 0, loop_t |-> 0]
  IN  IF kind # "value" THEN [same EXCEPT !.end = AfterExtendFails]
      ELSE IF ~needs_extension(d, min_duration) THEN same
      ELSE IF d = 0 THEN [same EXCEPT !.end = AfterExtendFails]   \* ZeroDivisionError
      ELSE IF env.concatOk /\ rc >= 1 THEN made                   \* line 1309 unlinks the list
      ELSE IF env.loopOk /\ rc - 1 >= -1                          \* aloop accepts loop >= -1
        THEN [made EXCEPT !.ran = {"concat", "loop"}, !.left = {list_file, ep},
                          !.concat = "nonzero", !.loop = "zero",
                          !.loops = loop_count(rc), !.loop_t = min_duration]
      ELSE [same EXCEPT !.counted = TRUE, !.repeat = rc,
                        !.ran = {"concat", "loop"}, !.written = {list_file},
                        !.left = {list_file}, !.end = AfterExtendFails,
                        !.concat = "nonzero", !.loop = "nonzero",
                        !.loops = loop_count(rc), !.loop_t = min_duration]

\* what clone_voice keeps of a run: which path came back, for which threshold
extend_short_audio(asset, min_duration, probeOk, concatOk, loopOk) ==
  LET r == extend_effects(<<>>, asset, min_duration,
                          [probeOk |-> probeOk, concatOk |-> concatOk, loopOk |-> loopOk],
                          <<>>)
  IN  [path |-> r.ext, dur |-> r.dur, min |-> min_duration]

(***************************************************************************)
(* State.                                                                  *)
(***************************************************************************)
VARIABLES
  pc,            \* position of the current clone_voice call
  name,          \* text the three paths are built from
  tts,           \* the TTS asset on disk: [state, dur]
  ref,           \* the reference asset on disk: [state, dur]
  outDirOk,      \* whether os.makedirs of the output directory succeeds
  extended_tts,  \* result of extend_short_audio(tts_wav_path, 3.0)
  extended_ref,  \* result of extend_short_audio(reference_wav_path, 5.0)
  temps,         \* extended files present on disk
  backendIn,     \* the -i / -r arguments of the first backend invocation
  stderr,        \* what the backend wrote to stderr in the online attempt
  error_msg,     \* str() of the exception the classification reads
  out,           \* the file at cloned_wav_path: [state, writer, content]
  log,           \* ordered record of the steps attempted in this call
  prev,          \* online failure and transition of the previous call
  calls,         \* number of calls started
  fx,            \* paths this call has written and deleted so far
  e_pc,          \* extend_short_audio on its own: "call", "returned", "raised"
  e_path,        \* audio_path of the current application
  e_asset,       \* the file at audio_path as ffprobe sees it: [state, dur]
  e_min,         \* min_duration, in milliseconds
  e_env,         \* whether ffprobe starts and how the two ffmpeg commands end
  e_fs,          \* the files present on disk
  e_last,        \* what the latest application returned and did
  e_first,       \* the same for the first application
  e_n,           \* number of the current application
  e_mode,        \* how the second application was set up
  p_pc,          \* each command-line run's position: run id -> step
  p_in,          \* each run's arguments: run id -> [name, video]
  p_base,        \* the base video the run goes on with: "orig" / "extended"
  p_cloned,      \* whether clone_voice left a file at cloned_wav
  p_ts,          \* the millisecond timestamp the splicer read
  p_err,         \* what ended the run, "none" while it has not failed
  p_dirs,        \* run ids whose per-run directories exist
  p_touched,     \* working directories and temporary files each run used
  p_stdout,      \* the lines each run has written to stdout
  p_disk,        \* the final videos on disk, each with its directory
  t_pc,          \* trim_audio_by_word on its own: "call", "returned", "raised"
  t_in,          \* its inputs: the transcript, the target name, the audio length
  t_out,         \* the window it selected and the strategy that selected it
  s_pc,          \* the splicer's silence selection on its own
  s_in,          \* the silence runs detect_silence reported
  s_out          \* the splice point, or the error raised

cloneVars == <<pc, name, tts, ref, outDirOk, extended_tts, extended_ref, temps,
               backendIn, stderr, error_msg, out, log, prev, calls, fx>>

extVars == <<e_pc, e_path, e_asset, e_min, e_env, e_fs, e_last, e_first, e_n, e_mode>>

pipeVars ==
  <<p_pc, p_in, p_base, p_cloned, p_ts, p_err, p_dirs, p_touched, p_stdout, p_disk>>

trimVars == <<t_pc, t_in, t_out>>

spliceVars == <<s_pc, s_in, s_out>>

vars == <<cloneVars, extVars, pipeVars, trimVars, spliceVars>>

Durations == {DurStep * k : k \in 0..MaxDurSteps}

Assets ==
  {[state |-> "missing", dur |-> 0], [state |-> "empty", dur |-> 0]}
    \cup {[state |-> "ok", dur |-> d] : d \in Durations}

Names ==
  {name_Atul, <<"K","e","s","s","l","e","r">>, <<"T","o","o"," ","S","h","o","r","t">>,
   <<"K","e","s","s","l","e","r"," ","T","o","o"," ","S","h","o","r","t">>}

StderrTexts == {err_network, <<"A","s","s","e","r","t","i","o","n","E","r","r","o","r",":"," ","i","n","p","u","t"," ","a","u","d","i","o"," ","i","s"," ","t","o","o"," ","s","h","o","r","t">>, <<"R","u","n","t","i","m","e","E","r","r","o","r",":"," ","o","u","t"," ","o","f"," ","m","e","m","o","r","y">>}

\* nothing written, nothing deleted
NoEffects == [written |-> {}, deleted |-> {}, read |-> {}]

Effects(old, w, d) ==
  [old EXCEPT !.written = old.written \cup w, !.deleted = old.deleted \cup d]

\* the files a fallback stage opens for reading
Reading(e, paths) == [e EXCEPT !.read = e.read \cup paths]

NotRun == [path |-> "unset", dur |-> 0, min |-> 0]
NoFile == [state |-> "absent", writer |-> "none", content |-> "none"]
NoPrev == [err |-> <<>>, kind |-> "none", trans |-> "none"]
NoInputs == [tts |-> <<>>, ref |-> <<>>]

NoRun ==
  [ret |-> <<>>, ext |-> "none", dur |-> 0, kind |-> "none", counted |-> FALSE,
   repeat |-> 0, ran |-> {}, written |-> {}, left |-> {}, end |-> "none",
   concat |-> "none", loop |-> "none", loops |-> 0, loop_t |-> 0]

NoEnv == [probeOk |-> FALSE, concatOk |-> FALSE, loopOk |-> FALSE]

\* extend_short_audio is not being exercised on its own
ExtOff ==
  /\ e_pc = "off"
  /\ e_path = <<>>
  /\ e_asset = [state |-> "missing", dur |-> 0]
  /\ e_min = 0
  /\ e_env = NoEnv
  /\ e_fs = {}
  /\ e_last = NoRun
  /\ e_first = NoRun
  /\ e_n = 0
  /\ e_mode = "none"

\* no command-line run is being exercised
PipeOff ==
  /\ p_pc = <<>>
  /\ p_in = <<>>
  /\ p_base = <<>>
  /\ p_cloned = <<>>
  /\ p_ts = <<>>
  /\ p_err = <<>>
  /\ p_dirs = {}
  /\ p_touched = <<>>
  /\ p_stdout = <<>>
  /\ p_disk = {}

\* trim_audio_by_word is not being exercised
TrimOff ==
  /\ t_pc = "off"
  /\ t_in = <<>>
  /\ t_out = <<>>

\* the splicer is not being exercised
SpliceOff ==
  /\ s_pc = "off"
  /\ s_in = <<>>
  /\ s_out = <<>>

Stages == {"online", "offline", "minimal", "spectral", "basic", "copy"}

\* one more step attempted
Logged(stage, outcome) == Append(log, [stage |-> stage, outcome |-> outcome])

Init ==
  /\ pc = "precheck"
  /\ name \in Names
  /\ tts \in Assets
  /\ ref \in Assets
  /\ outDirOk \in BOOLEAN
  /\ extended_tts = NotRun
  /\ extended_ref = NotRun
  /\ temps = {}
  /\ backendIn = NoInputs
  /\ stderr = <<>>
  /\ error_msg = <<>>
  /\ out = NoFile
  /\ log = <<>>
  /\ prev = NoPrev
  /\ calls = 1
  /\ fx = NoEffects
  /\ ExtOff
  /\ PipeOff
  /\ TrimOff
  /\ SpliceOff

(***************************************************************************)
(* What a call writes and deletes on disk, by path.                        *)
(***************************************************************************)

RECURSIVE replace(_, _, _)
\* str.replace(old, new)
replace(s, old, new) ==
  IF Len(s) < Len(old) THEN s
  ELSE IF SubSeq(s, 1, Len(old)) = old
    THEN new \o replace(SubSeq(s, Len(old) + 1, Len(s)), old, new)
    ELSE <<s[1]>> \o replace(Tail(s), old, new)

\* lines 396, 410, 441, 463: output_path.replace('.wav', '_pitch.wav'), ...
temp_files(output_path) ==
  {replace(output_path, sfx_wav, sfx) :
     sfx \in {<<"_","p","i","t","c","h",".","w","a","v">>, <<"_","s","p","e","c","t","r","a","l",".","w","a","v">>, <<"_","h","a","r","m","o","n","i","c",".","w","a","v">>, <<"_","a","c","o","u","s","t","i","c",".","w","a","v">>}}

cleanup_targets_unguarded(used, original) == {used}

\* lines 222-225, 258-261, 271-274:
\* if extended_tts != tts_wav_path: safe_delete(extended_tts)
cleanup_targets(used, original) == IF used # original THEN {used} ELSE {}

\* the extended files the call removes once the backend is done with them
extended_cleanup(n, e_tts, e_ref) ==
  cleanup_targets(PathOf(tts_wav_path(n), e_tts), tts_wav_path(n))
    \cup cleanup_targets(PathOf(reference_wav_path(n), e_ref), reference_wav_path(n))

\* extend_short_audio leaves its result at extended_path
extend_writes(p, r) == IF r.path = "extended" THEN {extended_path(p)} ELSE {}

(***************************************************************************)
(* Where control goes after each outcome of clone_voice's steps.           *)
(***************************************************************************)
AfterPrecheckOkSkipsNormalize == "online"

\* lines 190-196: the inner try starts with the two extend_short_audio calls
AfterPrecheckOk == "norm_tts"

AfterBackendOkFallsThrough == "advanced"

\* lines 226 and 262: return
AfterBackendOk == "done"

AfterMinimalFailsRetriesBackend == "online"

\* lines 283-296: create_minimal_voice_clone returned False
AfterMinimalFails == "advanced"

\* lines 538-542: the copy inside basic_voice_cloning_fallback raises,
\* through simple_voice_cloning's handler, into clone_voice's outer handler
AfterBasicCopyFails == "final_copy"

AfterFinalCopyFailsPropagates == "raised"

\* lines 306-307: except Exception as fallback_e: print(...)
AfterFinalCopyFails == "done"

BackendInputsOriginal(n, e_tts, e_ref) ==
  [tts |-> tts_wav_path(n), ref |-> reference_wav_path(n)]

\* "-i", extended_tts, "-r", extended_ref
BackendInputs(n, e_tts, e_ref) ==
  [tts |-> PathOf(tts_wav_path(n), e_tts),
   ref |-> PathOf(reference_wav_path(n), e_ref)]

FallbackInputsExtended(n, e_tts, e_ref) == BackendInputs(n, e_tts, e_ref)

\* lines 283, 296, 304 and 542: the fallbacks are called with tts_wav_path
\* and reference_wav_path
FallbackInputs(n, e_tts, e_ref) ==
  [tts |-> tts_wav_path(n), ref |-> reference_wav_path(n)]

\* the two files a transform fallback opens
fallback_reads(n, e_tts, e_ref) ==
  {FallbackInputs(n, e_tts, e_ref).tts, FallbackInputs(n, e_tts, e_ref).ref}

\* shutil.copy2(tts_wav_path, cloned_wav_path)
copy2(asset, diskOk) ==
  IF asset.state = "missing" \/ ~diskOk THEN "fail" ELSE "ok"

copy_source_reference == "ref"

\* lines 304 and 542: the first argument of shutil.copy2 is tts_wav_path
copy_source == "tts"

\* the file copy2 leaves at the destination: the bytes of the source
CopyOf(asset, source) ==
  [state |-> IF asset.state = "ok" THEN "full" ELSE "empty", writer |-> "copy",
   content |-> source]

(***************************************************************************)
(* clone_voice, step by step.                                              *)
(***************************************************************************)
\* lines 185-187: the two asserts and os.makedirs, inside the outer try
Precheck ==
  /\ pc = "precheck"
  /\ pc' = IF tts.state = "missing" \/ ref.state = "missing" \/ ~outDirOk
             THEN "final_copy"
             ELSE AfterPrecheckOk
  /\ UNCHANGED <<name, tts, ref, outDirOk, extended_tts, extended_ref, temps,
                 backendIn, stderr, error_msg, out, log, prev, calls>>
  /\ UNCHANGED fx
  /\ UNCHANGED <<extVars, pipeVars, trimVars, spliceVars>>

\* line 195
NormalizeTts ==
  /\ pc = "norm_tts"
  /\ \E probeOk, concatOk, loopOk \in BOOLEAN :
       LET r == extend_short_audio(tts, MIN_TTS_MS, probeOk, concatOk, loopOk)
       IN  /\ extended_tts' = r
           /\ temps' = IF r.path = "extended" THEN temps \cup {"tts_extended"} ELSE temps
  /\ log' = Logged("norm_tts", "done")
  /\ pc' = "norm_ref"
  /\ UNCHANGED <<name, tts, ref, outDirOk, extended_ref, backendIn, stderr,
                 error_msg, out, prev, calls>>
  /\ fx' = Effects(fx, extend_writes(tts_wav_path(name), extended_tts'), {})
  /\ UNCHANGED <<extVars, pipeVars, trimVars, spliceVars>>

\* line 196
NormalizeRef ==
  /\ pc = "norm_ref"
  /\ \E probeOk, concatOk, loopOk \in BOOLEAN :
       LET r == extend_short_audio(ref, MIN_REF_MS, probeOk, concatOk, loopOk)
       IN  /\ extended_ref' = r
           /\ temps' = IF r.path = "extended" THEN temps \cup {"ref_extended"} ELSE temps
  /\ log' = Logged("norm_ref", "done")
  /\ pc' = "online"
  /\ UNCHANGED <<name, tts, ref, outDirOk, extended_tts, backendIn, stderr,
                 error_msg, out, prev, calls>>
  /\ fx' = Effects(fx, extend_writes(reference_wav_path(name), extended_ref'), {})
  /\ UNCHANGED <<extVars, pipeVars, trimVars, spliceVars>>

is_CalledProcessError_or_timeout(outcome) == outcome \in {"fail", "timeout"}

\* line 228: except subprocess.CalledProcessError as network_error; a
\* TimeoutExpired is not one and goes to the handler at line 270
is_CalledProcessError(outcome) == outcome = "fail"

\* lines 202-233 and 267-269: the online attempt, timeout 120 s
Online ==
  /\ pc = "online"
  /\ LET args == BackendInputs(name, extended_tts, extended_ref) IN
     /\ backendIn' = args
     /\ \E outcome \in {"ok", "ok_nofile", "fail", "timeout"} :
          /\ log' = Logged("online", outcome)
          /\ IF outcome \in {"ok", "ok_nofile"}
               THEN /\ out' = IF outcome = "ok"
                                THEN [state |-> "full", writer |-> "online", content |-> "cloned"]
                                ELSE out
                    /\ temps' = {}
                    /\ pc' = AfterBackendOk
                    /\ UNCHANGED <<stderr, error_msg>>
               ELSE /\ \E e \in StderrTexts : stderr' = e
                    /\ error_msg' = str_error(outcome, args.tts, args.ref,
                                              cloned_wav_path(name))
                    /\ pc' = IF is_CalledProcessError(outcome) /\ IsNetworkError(error_msg')
                               THEN "offline"
                               ELSE "on_error"
                    /\ UNCHANGED <<out, temps>>
  /\ UNCHANGED <<name, tts, ref, outDirOk, extended_tts, extended_ref, prev, calls>>
  /\ fx' = IF pc' = AfterBackendOk
             THEN Effects(fx, IF out' # out THEN {cloned_wav_path(name)} ELSE {},
                          extended_cleanup(name, extended_tts, extended_ref))
             ELSE fx
  /\ UNCHANGED <<extVars, pipeVars, trimVars, spliceVars>>

raised_after_offline_own(network_error, offline_error) == offline_error

\* lines 264-266: except Exception: raise network_error
raised_after_offline(network_error, offline_error) == network_error

\* lines 235-266: the offline retry, timeout 60 s; on any failure the
\* online attempt's error is raised again
Offline ==
  /\ pc = "offline"
  /\ \E outcome \in {"ok", "ok_nofile", "fail", "timeout"} :
       /\ log' = Logged("offline", outcome)
       /\ IF outcome \in {"ok", "ok_nofile"}
            THEN /\ out' = IF outcome = "ok"
                             THEN [state |-> "full", writer |-> "offline", content |-> "cloned"]
                             ELSE out
                 /\ temps' = {}
                 /\ pc' = AfterBackendOk
                 /\ UNCHANGED error_msg
            ELSE /\ error_msg' =
                      raised_after_offline(
                        error_msg,
                        str_error(IF outcome = "timeout" THEN "timeout60" ELSE outcome,
                                  backendIn.tts, backendIn.ref, cloned_wav_path(name)))
                 /\ pc' = "on_error"
                 /\ UNCHANGED <<out, temps>>
  /\ UNCHANGED <<name, tts, ref, outDirOk, extended_tts, extended_ref,
                 backendIn, stderr, prev, calls>>
  /\ fx' = IF pc' = AfterBackendOk
             THEN Effects(fx, IF out' # out THEN {cloned_wav_path(name)} ELSE {},
                          extended_cleanup(name, extended_tts, extended_ref))
             ELSE fx
  /\ UNCHANGED <<extVars, pipeVars, trimVars, spliceVars>>

\* lines 270-282: except Exception as openvoice_error
OnError ==
  /\ pc = "on_error"
  /\ temps' = {}
  /\ pc' = IF IsShortAudioError(error_msg) THEN "minimal" ELSE "advanced"
  /\ UNCHANGED <<name, tts, ref, outDirOk, extended_tts, extended_ref,
                 backendIn, stderr, error_msg, out, log, prev, calls>>
  /\ fx' = Effects(fx, {}, extended_cleanup(name, extended_tts, extended_ref))
  /\ UNCHANGED <<extVars, pipeVars, trimVars, spliceVars>>

minimal_failure_raises == "raise"

\* lines 1351-1353: except Exception as e: print(...); return False
minimal_failure == "false"

\* lines 283-284 and 1330-1353: create_minimal_voice_clone
Minimal ==
  /\ pc = "minimal"
  /\ \E ok \in BOOLEAN :
       /\ log' = Logged("minimal", IF ok THEN "ok" ELSE "fail")
       /\ IF ok
            THEN /\ out' = [state |-> "full", writer |-> "minimal", content |-> "cloned"]
                 /\ pc' = "done"
            ELSE /\ pc' = IF minimal_failure = "false" THEN AfterMinimalFails
                                                       ELSE "final_copy"
                 /\ UNCHANGED out
  /\ UNCHANGED <<name, tts, ref, outDirOk, extended_tts, extended_ref, temps,
                 backendIn, stderr, error_msg, prev, calls>>
  /\ fx' = Reading(IF pc' = "done" THEN Effects(fx, {cloned_wav_path(name)}, {}) ELSE fx,
                   fallback_reads(name, extended_tts, extended_ref))
  /\ UNCHANGED <<extVars, pipeVars, trimVars, spliceVars>>

\* lines 296 and 311-338: simple_voice_cloning, the advanced module
Advanced ==
  /\ pc = "advanced"
  /\ \E outcome \in {"absent", "ok", "false", "raise"} :
       IF outcome = "ok"
         THEN /\ out' = [state |-> "full", writer |-> "spectral", content |-> "cloned"]
              /\ log' = Logged("spectral", "ok")
              /\ pc' = "done"
         ELSE /\ pc' = "ffmpeg"
              /\ UNCHANGED <<out, log>>
  /\ UNCHANGED <<name, tts, ref, outDirOk, extended_tts, extended_ref, temps,
                 backendIn, stderr, error_msg, prev, calls>>
  \* lines 318-329: the module is called only where its file exists
  /\ \E present \in IF pc' = "done" THEN {TRUE} ELSE BOOLEAN :
       fx' = Reading(IF pc' = "done" THEN Effects(fx, {cloned_wav_path(name)}, {}) ELSE fx,
                     IF present THEN fallback_reads(name, extended_tts, extended_ref)
                                ELSE {})
  /\ UNCHANGED <<extVars, pipeVars, trimVars, spliceVars>>

\* lines 340-347 and 349-509: enhanced_ffmpeg_voice_cloning
EnhancedFfmpeg ==
  /\ pc = "ffmpeg"
  /\ \E ok \in BOOLEAN :
       /\ log' = Logged("spectral", IF ok THEN "ok" ELSE "fail")
       /\ IF ok
            THEN /\ out' = [state |-> "full", writer |-> "spectral", content |-> "cloned"]
                 /\ pc' = "done"
            ELSE /\ pc' = "basic"
                 /\ UNCHANGED out
  /\ UNCHANGED <<name, tts, ref, outDirOk, extended_tts, extended_ref, temps,
                 backendIn, stderr, error_msg, prev, calls>>
  /\ fx' = Reading(
             IF pc' = "done"
               THEN Effects(fx, temp_files(cloned_wav_path(name)) \cup {cloned_wav_path(name)},
                            temp_files(cloned_wav_path(name)))
               ELSE Effects(fx, temp_files(cloned_wav_path(name)), {}),
             fallback_reads(name, extended_tts, extended_ref))
  /\ UNCHANGED <<extVars, pipeVars, trimVars, spliceVars>>

\* lines 511-539: basic_voice_cloning_fallback up to its handler
Basic ==
  /\ pc = "basic"
  /\ \E ok \in BOOLEAN :
       /\ log' = Logged("basic", IF ok THEN "ok" ELSE "fail")
       /\ IF ok
            THEN /\ out' = [state |-> "full", writer |-> "basic", content |-> "cloned"]
                 /\ pc' = "done"
            ELSE /\ pc' = "basic_copy"
                 /\ UNCHANGED out
  /\ UNCHANGED <<name, tts, ref, outDirOk, extended_tts, extended_ref, temps,
                 backendIn, stderr, error_msg, prev, calls>>
  /\ fx' = Reading(IF pc' = "done" THEN Effects(fx, {cloned_wav_path(name)}, {}) ELSE fx,
                   fallback_reads(name, extended_tts, extended_ref))
  /\ UNCHANGED <<extVars, pipeVars, trimVars, spliceVars>>

\* lines 540-543: the copy in basic_voice_cloning_fallback's handler
BasicCopy ==
  /\ pc = "basic_copy"
  /\ \E diskOk \in BOOLEAN :
       LET src == IF copy_source = "tts" THEN tts ELSE ref
           r == copy2(src, diskOk) IN
       /\ log' = Logged("copy", r)
       /\ IF r = "ok"
            THEN /\ out' = CopyOf(src, copy_source)
                 /\ pc' = "done"
            ELSE /\ pc' = AfterBasicCopyFails
                 /\ UNCHANGED out
  /\ UNCHANGED <<name, tts, ref, outDirOk, extended_tts, extended_ref, temps,
                 backendIn, stderr, error_msg, prev, calls>>
  /\ fx' = Reading(IF pc' = "done" THEN Effects(fx, {cloned_wav_path(name)}, {}) ELSE fx,
                   {FallbackInputs(name, extended_tts, extended_ref)[copy_source]})
  /\ UNCHANGED <<extVars, pipeVars, trimVars, spliceVars>>

\* lines 298-307: clone_voice's outer handler
FinalCopy ==
  /\ pc = "final_copy"
  /\ \E diskOk \in BOOLEAN :
       LET src == IF copy_source = "tts" THEN tts ELSE ref
           r == copy2(src, diskOk) IN
       /\ log' = Logged("copy", r)
       /\ IF r = "ok"
            THEN /\ out' = CopyOf(src, copy_source)
                 /\ pc' = "done"
            ELSE /\ pc' = AfterFinalCopyFails
                 /\ UNCHANGED out
  /\ UNCHANGED <<name, tts, ref, outDirOk, extended_tts, extended_ref, temps,
                 backendIn, stderr, error_msg, prev, calls>>
  /\ fx' = Reading(IF pc' = "done" THEN Effects(fx, {cloned_wav_path(name)}, {}) ELSE fx,
                   {FallbackInputs(name, extended_tts, extended_ref)[copy_source]})
  /\ UNCHANGED <<extVars, pipeVars, trimVars, spliceVars>>

(***************************************************************************)
(* The record of a call, read back from its log.                           *)
(***************************************************************************)
StageEntries == SelectSeq(log, LAMBDA e : e.stage \in Stages)

Attempts(stage) == Cardinality({i \in 1..Len(log) : log[i].stage = stage})

Attempted(stage) == \E i \in 1..Len(log) : log[i].stage = stage

OutcomeOf(stage) ==
  IF Attempted(stage)
    THEN log[CHOOSE i \in 1..Len(log) : log[i].stage = stage].outcome
    ELSE "none"

\* the stage tried right after the online attempt
Transition ==
  LET s == StageEntries
  IN  IF Len(s) >= 2 /\ s[1].stage = "online" THEN s[2].stage ELSE "none"

\* generate_progress calls clone_voice once per name; a worker process
\* serves one name after another
NextCall ==
  /\ pc = "done"
  /\ calls < MaxCalls
  /\ calls' = calls + 1
  /\ prev' = IF Transition # "none"
               THEN [err |-> stderr, kind |-> OutcomeOf("online"), trans |-> Transition]
               ELSE prev
  /\ pc' = "precheck"
  /\ name' \in Names
  /\ tts' \in Assets
  /\ ref' \in Assets
  /\ outDirOk' \in BOOLEAN
  /\ extended_tts' = NotRun
  /\ extended_ref' = NotRun
  /\ temps' = {}
  /\ backendIn' = NoInputs
  /\ stderr' = <<>>
  /\ error_msg' = <<>>
  /\ out' = NoFile
  /\ log' = <<>>
  /\ fx' = NoEffects
  /\ UNCHANGED <<extVars, pipeVars, trimVars, spliceVars>>

Next ==
  \/ Precheck
  \/ NormalizeTts
  \/ NormalizeRef
  \/ Online
  \/ Offline
  \/ OnError
  \/ Minimal
  \/ Advanced
  \/ EnhancedFfmpeg
  \/ Basic
  \/ BasicCopy
  \/ FinalCopy
  \/ NextCall

Spec == Init /\ [][Next]_vars

\* one call on its own; every step of a call is a blocking call that
\* returns (the backend calls by their timeouts), so a step that can be
\* taken is taken
CallStep ==
  \/ Precheck
  \/ NormalizeTts
  \/ NormalizeRef
  \/ Online
  \/ Offline
  \/ OnError
  \/ Minimal
  \/ Advanced
  \/ EnhancedFfmpeg
  \/ Basic
  \/ BasicCopy
  \/ FinalCopy

FairOneCall == Init /\ [][CallStep]_vars /\ WF_vars(CallStep)

(***************************************************************************)
(* extend_short_audio on its own: one application, then a second one,      *)
(* either on the path the first returned (the commands behaving as before) *)
(* or on another file, as clone_voice applies it to the TTS and then to    *)
(* the reference file.                                                     *)
(***************************************************************************)
(* "tmp_list_" *)

\* tempfile.NamedTemporaryFile(suffix='.txt', delete=False): a fresh name per call
list_file(n) == Append(<<"t","m","p","_","l","i","s","t","_">>, IF n = 1 THEN "1" ELSE "2")

ExtAssets ==
  {[state |-> "missing", dur |-> 0], [state |-> "empty", dur |-> 0],
   [state |-> "no_duration", dur |-> 0]}
    \cup {[state |-> "ok", dur |-> d] : d \in (Durations \cup {-4000, -1500, 1200, 3000, 4000, 5000})}

Envs == [probeOk : BOOLEAN, concatOk : BOOLEAN, loopOk : BOOLEAN]

ClonesOff ==
  /\ pc = "off"
  /\ name = name_Atul
  /\ tts = [state |-> "missing", dur |-> 0]
  /\ ref = [state |-> "missing", dur |-> 0]
  /\ outDirOk = FALSE
  /\ extended_tts = NotRun
  /\ extended_ref = NotRun
  /\ temps = {}
  /\ backendIn = NoInputs
  /\ stderr = <<>>
  /\ error_msg = <<>>
  /\ out = NoFile
  /\ log = <<>>
  /\ prev = NoPrev
  /\ calls = 0
  /\ fx = NoEffects

InitExtend ==
  /\ ClonesOff
  /\ PipeOff
  /\ TrimOff
  /\ SpliceOff
  /\ e_pc = "call"
  /\ e_path = tts_wav_path(name_Atul)
  /\ e_asset \in ExtAssets
  /\ e_min \in {MIN_TTS_MS, MIN_REF_MS}
  /\ e_env \in Envs
  /\ e_fs = IF e_asset.state = "missing" THEN {} ELSE {e_path}
  /\ e_last = NoRun
  /\ e_first = NoRun
  /\ e_n = 1
  /\ e_mode = "first"

\* lines 1271-1328: one application, from call to return
ExtendCall ==
  /\ e_pc = "call"
  /\ LET r == extend_effects(e_path, e_asset, e_min, e_env, list_file(e_n)) IN
     /\ e_last' = r
     /\ e_first' = IF e_n = 1 THEN r ELSE e_first
     /\ e_fs' = e_fs \cup r.left
     /\ e_pc' = r.end
  /\ UNCHANGED <<e_path, e_asset, e_min, e_env, e_n, e_mode>>
  /\ UNCHANGED <<cloneVars, pipeVars, trimVars, spliceVars>>

\* the caller passes the returned path to extend_short_audio again
Reapply ==
  /\ e_pc = "returned"
  /\ e_n = 1
  /\ e_n' = 2
  /\ e_mode' = "reapply"
  /\ e_path' = e_last.ret
  /\ e_asset' = IF e_last.ext = "extended"
                  THEN [state |-> "ok", dur |-> e_last.dur]
                  ELSE e_asset
  /\ e_pc' = "call"
  /\ UNCHANGED <<e_min, e_env, e_fs, e_last, e_first>>
  /\ UNCHANGED <<cloneVars, pipeVars, trimVars, spliceVars>>

\* lines 195-196: the caller goes on to its second file
ExtendOther ==
  /\ e_pc = "returned"
  /\ e_n = 1
  /\ e_n' = 2
  /\ e_mode' = "other"
  /\ e_path' = reference_wav_path(name_Atul)
  /\ e_asset' \in ExtAssets
  /\ e_min' \in {MIN_TTS_MS, MIN_REF_MS}
  /\ e_env' \in Envs
  /\ e_fs' = IF e_asset'.state = "missing" THEN e_fs ELSE e_fs \cup {e_path'}
  /\ e_pc' = "call"
  /\ UNCHANGED <<e_last, e_first>>
  /\ UNCHANGED <<cloneVars, pipeVars, trimVars, spliceVars>>

NextExtend ==
  \/ ExtendCall
  \/ Reapply
  \/ ExtendOther

SpecExtend == InitExtend /\ [][NextExtend]_vars

(***************************************************************************)
(* The command-line run of generate.py, two processes side by side.        *)
(* A run id is the process's RUN_ID; names, base videos and millisecond    *)
(* timestamps are numbered.                                                *)
(***************************************************************************)
MaxTs == 2

MIN_VIDEO_MS == 10000

Runs == {1, 2}

VideoIds == {1, 2}

Videos ==
  {[id |-> v, state |-> "missing", dur |-> 0] : v \in VideoIds}
    \cup {[id |-> v, state |-> "ok", dur |-> d] : v \in VideoIds, d \in {5000, 12000}}

\* os.path.join(base_dir, RUN_ID) for the five base directories
RunDirs(run) == {[kind |-> k, a |-> run, b |-> 0] : k \in {"uploads", "generated_videos", "tts", "cloned_voices", "voice_reference"}}

\* f"temp_normalized_audio_{RUN_ID}.wav"
temp_normalized(run) == [kind |-> "temp_normalized_audio", a |-> run, b |-> 0]

\* f"{base_name}_extended.mp4", next to the base video
extended_video_path(video) == [kind |-> "base_extended", a |-> video.id, b |-> 0]

\* generated_videos/{name}_original_audio_{timestamp}.mp3
base_audio_path(nm, timestamp) == [kind |-> "original_audio", a |-> nm, b |-> timestamp]

\* generated_videos/{name}_final_audio_{timestamp}.mp3
final_audio_path(nm, timestamp) == [kind |-> "final_audio", a |-> nm, b |-> timestamp]

\* generated_videos/{name}_temp_audio_{timestamp}.m4a
temp_audiofile(nm, timestamp) == [kind |-> "temp_audio", a |-> nm, b |-> timestamp]

\* the base video to go on with and the file the loop command wrote
validate_video_duration(video, probeOk, loopOk) ==
  IF ~probeOk THEN [base |-> "orig", wrote |-> {}]
  ELSE IF video.dur < MIN_VIDEO_MS
    THEN [base  |-> IF loopOk THEN "extended" ELSE "orig",
          wrote |-> {extended_video_path(video)}]
    ELSE [base |-> "orig", wrote |-> {}]

\* generated_videos/{name}_{timestamp}.mp4
final_video_path(nm, timestamp) == [kind |-> "final_video", a |-> nm, b |-> timestamp]

final_video_dir_of_run(run) == [kind |-> "generated_videos", a |-> run, b |-> 0]

\* generate_video.py line 10: OUTPUT_DIR = "generated_videos", the base
\* directory itself and not the run's directory under it
final_video_dir(run) == [kind |-> "generated_videos", a |-> 0, b |-> 0]

\* lines 691-695: the files generate_progress deletes by name (trimmed_path
\* is cloned_wav)
safe_deleted(nm, run) ==
  {[kind |-> k, a |-> nm, b |-> run] :
     k \in {"tts_mp3", "tts_wav", "cloned_wav", "reference_wav"}}

\* a line of diagnostics on stdout
Diag(kind) == [kind |-> kind, a |-> 0, b |-> 0]

\* lines 705-711 and 686-690: what the cleanup prints
cleanup_lines(rmOk) ==
  IF rmOk THEN <<Diag("deleted_folder")>>
  ELSE <<Diag("could_not_delete_folder"), Diag("deleted_temporary_file")>>

success_lines_path_first(path, rmOk) ==
  <<Diag("done_for"), path>> \o cleanup_lines(rmOk)

\* lines 682-691: print("Done for ..."), the cleanup, print(final_video_path)
success_lines(path, rmOk) ==
  <<Diag("done_for")>> \o cleanup_lines(rmOk) \o <<path>>

InitPipeline ==
  /\ ClonesOff
  /\ ExtOff
  /\ TrimOff
  /\ SpliceOff
  /\ p_pc = [i \in Runs |-> "start"]
  /\ p_in \in [Runs -> [name : {1, 2}, video : Videos]]
  /\ p_base = [i \in Runs |-> "orig"]
  /\ p_cloned = [i \in Runs |-> FALSE]
  /\ p_ts = [i \in Runs |-> 0]
  /\ p_err = [i \in Runs |-> "none"]
  /\ p_dirs = {}
  /\ p_touched = [i \in Runs |-> {}]
  /\ p_stdout = [i \in Runs |-> <<>>]
  /\ p_disk = {}

\* lines 23-43: the module body creates the five per-run directories
Import(i) ==
  /\ p_pc[i] = "start"
  /\ p_dirs' = p_dirs \cup {i}
  /\ p_touched' = [p_touched EXCEPT ![i] = @ \cup RunDirs(i)]
  /\ p_pc' = [p_pc EXCEPT ![i] = "main"]
  /\ UNCHANGED <<p_in, p_base, p_cloned, p_ts, p_err, p_stdout>>
  /\ UNCHANGED p_disk
  /\ UNCHANGED <<cloneVars, extVars, trimVars, spliceVars>>

\* lines 1447-1459 with 1418-1436: the base video is looked up and validated
ValidatePaths(i) ==
  /\ p_pc[i] = "main"
  /\ IF p_in[i].video.state = "missing"
       THEN /\ p_err' = [p_err EXCEPT ![i] = "FileNotFoundError"]
            /\ p_pc' = [p_pc EXCEPT ![i] = "exit1"]
            /\ p_stdout' = [p_stdout EXCEPT ![i] = Append(@, Diag("file_error"))]
            /\ UNCHANGED <<p_base, p_touched>>
       ELSE \E probeOk \in BOOLEAN, loopOk \in BOOLEAN :
              LET r == validate_video_duration(p_in[i].video, probeOk, loopOk) IN
              /\ p_base' = [p_base EXCEPT ![i] = r.base]
              /\ p_touched' = [p_touched EXCEPT ![i] = @ \cup r.wrote]
              /\ p_pc' = [p_pc EXCEPT ![i] = "extract"]
              /\ p_stdout' = [p_stdout EXCEPT ![i] = Append(@, Diag("processing"))]
              /\ UNCHANGED p_err
  /\ UNCHANGED <<p_in, p_cloned, p_ts, p_dirs>>
  /\ UNCHANGED p_disk
  /\ UNCHANGED <<cloneVars, extVars, trimVars, spliceVars>>

\* lines 654-655 with 56-83: the reference audio is taken from the base video
ExtractReference(i) ==
  /\ p_pc[i] = "extract"
  /\ p_touched' = [p_touched EXCEPT ![i] = @ \cup {temp_normalized(i)}]
  /\ p_pc' = [p_pc EXCEPT ![i] = "clone"]
  /\ p_stdout' = [p_stdout EXCEPT ![i] = Append(@, Diag("reference_extracted"))]
  /\ UNCHANGED <<p_in, p_base, p_cloned, p_ts, p_err, p_dirs>>
  /\ UNCHANGED p_disk
  /\ UNCHANGED <<cloneVars, extVars, trimVars, spliceVars>>

\* lines 664-672: the name audio is made and clone_voice returns
CloneName(i) ==
  /\ p_pc[i] = "clone"
  /\ \E cloned \in BOOLEAN : p_cloned' = [p_cloned EXCEPT ![i] = cloned]
  /\ p_pc' = [p_pc EXCEPT ![i] = "video"]
  /\ p_stdout' = [p_stdout EXCEPT ![i] = Append(@, Diag("cloning_voice"))]
  /\ UNCHANGED <<p_in, p_base, p_ts, p_err, p_dirs, p_touched>>
  /\ UNCHANGED p_disk
  /\ UNCHANGED <<cloneVars, extVars, trimVars, spliceVars>>

\* line 681 with generate_video.py 13-83, and lines 1460-1464 when it raises
GenerateVideo(i) ==
  /\ p_pc[i] = "video"
  /\ IF ~p_cloned[i]
       THEN /\ p_err' = [p_err EXCEPT ![i] = "no_cloned_audio"]
            /\ p_pc' = [p_pc EXCEPT ![i] = "exit1"]
            /\ p_stdout' = [p_stdout EXCEPT ![i] = Append(@, Diag("unexpected_error"))]
            /\ UNCHANGED <<p_ts, p_touched, p_disk>>
       ELSE \E timestamp \in (1..MaxTs), outcome \in {"ok", "no_silence", "video_error"} :
              LET nm == p_in[i].name IN
              /\ p_ts' = [p_ts EXCEPT ![i] = timestamp]
              /\ p_touched' =
                   [p_touched EXCEPT ![i] =
                      @ \cup {base_audio_path(nm, timestamp)}
                        \cup IF outcome = "no_silence" THEN {}
                             ELSE {final_audio_path(nm, timestamp),
                                   temp_audiofile(nm, timestamp)}]
              /\ p_disk' = IF outcome = "ok"
                             THEN p_disk \cup {[file |-> final_video_path(nm, timestamp),
                                                dir  |-> final_video_dir(i)]}
                             ELSE p_disk
              /\ p_err' = [p_err EXCEPT ![i] = IF outcome = "ok" THEN "none" ELSE outcome]
              /\ p_pc' = [p_pc EXCEPT ![i] = IF outcome = "ok" THEN "cleanup" ELSE "exit1"]
              /\ p_stdout' =
                   [p_stdout EXCEPT ![i] =
                      @ \o IF outcome = "ok"
                             THEN <<Diag("generated_video"), final_video_path(nm, timestamp)>>
                             ELSE <<Diag("unexpected_error")>>]
  /\ UNCHANGED <<p_in, p_base, p_cloned, p_dirs>>
  /\ UNCHANGED <<cloneVars, extVars, trimVars, spliceVars>>

\* lines 684-691 with 702-711: reached only when nothing above raised
Cleanup(i) ==
  /\ p_pc[i] = "cleanup"
  /\ \E rmOk \in BOOLEAN :
       /\ p_dirs' = IF rmOk THEN p_dirs \ {i} ELSE p_dirs
       /\ p_disk' = {e \in p_disk :
                       /\ ~(rmOk /\ e.dir \in RunDirs(i))
                       /\ e.file \notin safe_deleted(p_in[i].name, i)}
       /\ p_stdout' =
            [p_stdout EXCEPT ![i] =
               @ \o success_lines(final_video_path(p_in[i].name, p_ts[i]), rmOk)]
  /\ p_pc' = [p_pc EXCEPT ![i] = "exit0"]
  /\ UNCHANGED <<p_in, p_base, p_cloned, p_ts, p_err, p_touched>>
  /\ UNCHANGED <<cloneVars, extVars, trimVars, spliceVars>>

RunStep(i) ==
  \/ Import(i)
  \/ ValidatePaths(i)
  \/ ExtractReference(i)
  \/ CloneName(i)
  \/ GenerateVideo(i)
  \/ Cleanup(i)

NextPipeline == \E i \in Runs : RunStep(i)

SpecPipeline == InitPipeline /\ [][NextPipeline]_vars

(***************************************************************************)
(* word_trimming.py: trim_audio_by_word (the definition at line 70, which  *)
(* replaces the one at line 42).  Times are integers in milliseconds.      *)
(***************************************************************************)
MaxWords == 3

\* the words Whisper reports, as it writes them
raw_namaskar == <<" ","n","a","m","a","s","k","a","r">>

raw_nameskar == <<" ","N","a","m","e","s","k","a","r",",">>

raw_jay == <<" ","j","a","y">>

raw_atul == <<" ","a","t","u","l">>

\* characters in code point order
CodePoints ==
  <<" ", "!", ",", "a", "b", "c", "d", "e", "f", "g", "h", "i", "j", "k", "l",
    "m", "n", "o", "p", "q", "r", "s", "t", "u", "v", "w", "x", "y", "z">>

Code(c) == CHOOSE k \in 1..Len(CodePoints) : CodePoints[k] = c

RECURSIVE str_less(_, _)
\* a < b on Python strings
str_less(a, b) ==
  IF b = <<>> THEN FALSE
  ELSE IF a = <<>> THEN TRUE
  ELSE IF a[1] = b[1] THEN str_less(Tail(a), Tail(b))
  ELSE Code(a[1]) < Code(b[1])

RECURSIVE lstrip(_)
lstrip(s) == IF s # <<>> /\ s[1] = " " THEN lstrip(Tail(s)) ELSE s

RECURSIVE rstrip(_)
rstrip(s) ==
  IF s # <<>> /\ s[Len(s)] = " " THEN rstrip(SubSeq(s, 1, Len(s) - 1)) ELSE s

\* str.strip()
strip(s) == rstrip(lstrip(s))

RECURSIVE split(_)
\* str.split(): the maximal runs of non-blank characters
split(s) ==
  LET t == lstrip(s) IN
  IF t = <<>> THEN <<>>
  ELSE LET blanks == {k \in 1..Len(t) : t[k] = " "}
           stop   == IF blanks = {} THEN Len(t) + 1
                     ELSE CHOOSE k \in blanks : \A m \in blanks : k <= m
       IN  <<SubSeq(t, 1, stop - 1)>> \o split(SubSeq(t, stop, Len(t)))

\* line 94: re.sub(r'[^\w\s]', '', word["word"].lower().strip())
normalize(w) == SelectSeq(strip(lower(w)), LAMBDA c : c \in {CodePoints[k] : k \in 4..Len(CodePoints)} \cup {" "})

RECURSIVE matching(_, _)
\* difflib.SequenceMatcher(a=a, b=b): the number of matched characters, by
\* taking the longest common block (the earliest in a, then the earliest in
\* b) and recursing to its left and to its right
matching(a, b) ==
  IF a = <<>> \/ b = <<>> THEN 0
  ELSE
    LET blocks ==
          {x \in (1..Len(a)) \X (1..Len(b)) \X (1..Min(Len(a), Len(b))) :
             /\ x[1] + x[3] - 1 <= Len(a)
             /\ x[2] + x[3] - 1 <= Len(b)
             /\ SubSeq(a, x[1], x[1] + x[3] - 1) = SubSeq(b, x[2], x[2] + x[3] - 1)}
    IN  IF blocks = {} THEN 0
        ELSE
          LET m == CHOOSE x \in blocks : \A y \in blocks :
                     \/ x[3] > y[3]
                     \/ x[3] = y[3] /\ x[1] < y[1]
                     \/ x[3] = y[3] /\ x[1] = y[1] /\ x[2] <= y[2]
          IN  m[3]
                + matching(SubSeq(a, 1, m[1] - 1), SubSeq(b, 1, m[2] - 1))
                + matching(SubSeq(a, m[1] + m[3], Len(a)), SubSeq(b, m[2] + m[3], Len(b)))

Vocabulary == {raw_namaskar, raw_nameskar, raw_jay, raw_atul, <<"!">>}

TargetNames == {<<"A","t","u","l">>, <<"R","a","v","i"," ","J","a","y">>, <<"O","m">>}

\* how long each word is spoken, in milliseconds
Spoken(raw) ==
  CASE raw = raw_namaskar -> 500
    [] raw = raw_nameskar -> 500
    [] raw = raw_jay      -> 300
    [] raw = raw_atul     -> 400
    [] OTHER              -> 100

RECURSIVE StartAt(_, _, _, _)
StartAt(ws, gs, first, k) ==
  IF k = 1 THEN first
  ELSE StartAt(ws, gs, first, k - 1) + Spoken(ws[k - 1]) + gs[k - 1]

\* result["segments"][..]["words"]: each word with its start and end
all_words(ws, gs, first) ==
  [k \in 1..Len(ws) |->
     [word  |-> ws[k],
      start |-> StartAt(ws, gs, first, k),
      end   |-> StartAt(ws, gs, first, k) + Spoken(ws[k])]]

\* every text the similarity is computed on
Texts ==
  {normalize(w) : w \in Vocabulary}
    \cup UNION {{split(lower(t))[k] : k \in 1..Len(split(lower(t)))} : t \in TargetNames}

\* SequenceMatcher's matched characters for each pair of texts
Matched == [a \in Texts, b \in Texts |-> matching(a, b)]

\* s.ratio() >= cutoff, with the cutoff in tenths: 2.0*M/T >= cutoff
close_enough(x, word, cutoff10) ==
  LET t == Len(x) + Len(word)
  IN  IF t = 0 THEN TRUE ELSE 20 * Matched[x, word] >= cutoff10 * t

\* (score, x) >= (score, y) as heapq.nlargest compares its tuples
ranks_above(x, y, word) ==
  LET sx == Matched[x, word] * (Len(y) + Len(word))
      sy == Matched[y, word] * (Len(x) + Len(word))
  IN  sx > sy \/ (sx = sy /\ ~str_less(x, y))

RECURSIVE best_first(_, _, _, _)
best_first(word, possibilities, idx, n) ==
  IF n = 0 \/ idx = {} THEN <<>>
  ELSE LET k == CHOOSE k \in idx :
                  \A m \in idx : ranks_above(possibilities[k], possibilities[m], word)
       IN  <<possibilities[k]>> \o best_first(word, possibilities, idx \ {k}, n - 1)

\* difflib.get_close_matches(word, possibilities, n, cutoff): the n best
\* among the possibilities scoring at least cutoff, best first
get_close_matches(word, possibilities, n, cutoff10) ==
  best_first(word, possibilities,
             {k \in 1..Len(possibilities) : close_enough(possibilities[k], word, cutoff10)},
             n)

\* list.index(x, start), 1-based
index(seq, x, from) ==
  CHOOSE k \in from..Len(seq) : seq[k] = x /\ \A m \in from..(k - 1) : seq[m] # x

NoWindow ==
  [status |-> "none", strategy |-> "none", start |-> 0, end |-> 0, i |-> 0, j |-> 0,
   windows |-> 0, exported |-> 0, start10 |-> 0, length10 |-> 0]

\* audio[a:b] on a pydub segment of the given length: its length
sliced(a, b, length) ==
  LET lo == Min(IF a < 0 THEN 0 ELSE a, length)
      hi == Min(IF b < 0 THEN 0 ELSE b, length)
  IN  IF hi > lo THEN hi - lo ELSE 0

Window(strategy, a, b, i, j, length, a10, len10) ==
  [status |-> "returned", strategy |-> strategy, start |-> a, end |-> b, i |-> i, j |-> j,
   windows |-> 1, exported |-> sliced(a, b, length), start10 |-> a10, length10 |-> len10]

first_end_from_start(words, i) == words[i].start

\* line 106: first_end = all_words[i]["end"]
first_end(words, i) == words[i].end

\* line 107: second_start = all_words[second_index]["start"]
second_start(words, j) == words[j].start

\* line 94: normalized_words
normalized_words(words) == [k \in 1..Len(words) |-> normalize(words[k].word)]

\* line 100: get_close_matches(word1, normalized_words[i+1:], n=1, cutoff=0.8)
matches_after(nw, i) == get_close_matches(nw[i], SubSeq(nw, i + 1, Len(nw)), 1, 8)

\* lines 106-115: the audio between the end of word i and the start of word j
between_pair(words, i, j, length) ==
  [found |-> TRUE,
   window |-> Window("repeated-word", first_end(words, i), second_start(words, j),
                     i, j, length, 0, 0)]

RECURSIVE repeated_word_from(_, _, _, _)
\* lines 98-115: the loop over the words; the first word that has a close
\* match after it, and the first position after it of the best such match
repeated_word_from(i, words, nw, length) ==
  IF i > Len(nw) THEN [found |-> FALSE, window |-> NoWindow]
  ELSE IF nw[i] # <<>> /\ matches_after(nw, i) # <<>>
       THEN between_pair(words, i, index(nw, matches_after(nw, i)[1], i + 1), length)
       ELSE repeated_word_from(i + 1, words, nw, length)

repeated_word(words, target_name, length) ==
  repeated_word_from(1, words, normalized_words(words), length)

\* lines 127-145: the matched word, widened by 0.5 s on each side
around_match(words, match_index, length) ==
  [found |-> TRUE,
   window |-> Window("name-match",
                     IF words[match_index].start - 500 > 0
                       THEN words[match_index].start - 500 ELSE 0,
                     words[match_index].end + 500, match_index, 0, length, 0, 0)]

RECURSIVE name_match_from(_, _, _, _, _)
\* lines 119-145: the loop over the tokens of the name; the first token that
\* has close matches, and the first position of the best of them
name_match_from(k, words, nw, tokens, length) ==
  IF k > Len(tokens) THEN [found |-> FALSE, window |-> NoWindow]
  ELSE IF get_close_matches(tokens[k], nw, 3, 6) # <<>>
       THEN around_match(words, index(nw, get_close_matches(tokens[k], nw, 3, 6)[1], 1),
                         length)
       ELSE name_match_from(k + 1, words, nw, tokens, length)

name_match(words, target_name, length) ==
  name_match_from(1, words, normalized_words(words), split(lower(target_name)), length)

segment_duration10_half(length) == Min(30000, 5 * length)

\* line 153: min(3.0, total_duration * 0.4), in tenths of a millisecond
segment_duration10(length) == Min(30000, 4 * length)

\* lines 149-161: the middle of the audio
fallback_middle(words, target_name, length) ==
  LET seg10   == segment_duration10(length)
      start10 == (10 * length - seg10) \div 2
      end10   == start10 + seg10
  IN  [found |-> TRUE,
       window |-> Window("fallback-middle", start10 \div 10, end10 \div 10, 0, 0,
                         length, start10, seg10)]

strategies_name_first == <<"name-match", "repeated-word", "fallback-middle">>

\* lines 96, 117, 147: the order in which the strategies are tried
strategies == <<"repeated-word", "name-match", "fallback-middle">>

attempt(strategy, words, target_name, length) ==
  CASE strategy = "repeated-word" -> repeated_word(words, target_name, length)
    [] strategy = "name-match"    -> name_match(words, target_name, length)
    [] OTHER                      -> fallback_middle(words, target_name, length)

RECURSIVE first_success(_, _, _, _)
first_success(k, words, target_name, length) ==
  LET r == attempt(strategies[k], words, target_name, length)
  IN  IF r.found \/ k = Len(strategies) THEN r.window
      ELSE first_success(k + 1, words, target_name, length)

\* lines 90-91: raise ValueError("No words found in transcription.")
AfterNoWords(words, target_name, length) == [NoWindow EXCEPT !.status = "raised"]

\* lines 70-161
trim_audio_by_word(words, target_name, length) ==
  IF words = <<>> THEN AfterNoWords(words, target_name, length)
  ELSE first_success(1, words, target_name, length)

ClonesExtPipeOff == ClonesOff /\ ExtOff /\ PipeOff

InitTrim ==
  /\ ClonesExtPipeOff
  /\ SpliceOff
  /\ t_pc = "call"
  /\ t_out = NoWindow
  /\ \E n \in 0..MaxWords, target \in TargetNames :
       \E ws \in [1..n -> Vocabulary], gs \in [1..(n - 1) -> {0, 1200}], first \in {0, 700} :
         LET words == all_words(ws, gs, first) IN
         \E length \in IF n = 0 THEN {0, 2000, 9000}
                       ELSE {words[n].end + tail : tail \in {300, 2000, 6000}} :
           t_in = [words |-> words, target_name |-> target, length |-> length]

\* one trimming operation, from call to return or raise
Trim ==
  /\ t_pc = "call"
  /\ t_out' = trim_audio_by_word(t_in.words, t_in.target_name, t_in.length)
  /\ t_pc' = t_out'.status
  /\ UNCHANGED t_in
  /\ UNCHANGED <<cloneVars, extVars, pipeVars, spliceVars>>

NextTrim == Trim

SpecTrim == InitTrim /\ [][NextTrim]_vars

(***************************************************************************)
(* generate_video.py: where generate_video_for_name puts the cloned voice. *)
(* The input is the list detect_silence returns: the runs of at least      *)
(* min_silence_len below the threshold, in time order, as [start, end] in  *)
(* milliseconds.                                                           *)
(***************************************************************************)
MaxRuns == 3

MIN_SILENCE_LEN == 500

LEADING_MS == 500

ADVANCE_MS == 500

\* what detect_silence(original_audio, min_silence_len=500, ...) can
\* return: runs at least min_silence_len long, in order, apart
SilenceLists ==
  UNION {{runs \in [1..n -> [start : {0, 300, 500, 600, 1000, 2000, 3000}, len : {MIN_SILENCE_LEN, 600, 1200}]] :
            \A k \in 1..(n - 1) : runs[k].start + runs[k].len < runs[k + 1].start}
         : n \in 0..MaxRuns}

silent_segments_cut_short(runs) ==
  [k \in 1..Len(runs) |-> <<runs[k].start, runs[k].start + runs[k].len - 1>>]

\* line 37: the [start, end] pairs detect_silence returns
silent_segments_of(runs) ==
  [k \in 1..Len(runs) |-> <<runs[k].start, runs[k].start + runs[k].len>>]

\* line 41: seg[0] > 500
keeps(seg) == seg[1] > LEADING_MS

\* line 42: silent_segments[0] of an empty list
AfterAllDiscarded == "IndexError"

\* lines 37-43: the splice point, or the error that ends the splicer
splice_point(silent_segments) ==
  IF silent_segments = <<>> THEN [status |-> "no_silence", start_ms |-> 0]
  ELSE LET kept == SelectSeq(silent_segments, keeps)
       IN  IF kept = <<>> THEN [status |-> AfterAllDiscarded, start_ms |-> 0]
           ELSE [status |-> "ok", start_ms |-> kept[1][1] + ADVANCE_MS]

InitSplice ==
  /\ ClonesExtPipeOff
  /\ TrimOff
  /\ s_pc = "call"
  /\ s_in \in {silent_segments_of(runs) : runs \in SilenceLists}
  /\ s_out = [status |-> "none", start_ms |-> 0]

\* lines 35-44
Splice ==
  /\ s_pc = "call"
  /\ s_out' = splice_point(s_in)
  /\ s_pc' = "done"
  /\ UNCHANGED s_in
  /\ UNCHANGED <<cloneVars, extVars, pipeVars, trimVars>>

NextSplice == Splice

SpecSplice == InitSplice /\ [][NextSplice]_vars

(***************************************************************************)
(* Properties.                                                             *)
(***************************************************************************)
Failed(outcome) == outcome \in {"fail", "timeout"}

Succeeded(outcome) == outcome \in {"ok", "ok_nofile"}

StageRank(stage) ==
  CASE stage = "online"   -> 1
    [] stage = "offline"  -> 2
    [] stage = "minimal"  -> 3
    [] stage = "spectral" -> 4
    [] stage = "basic"    -> 5
    [] stage = "copy"     -> 6

\* the vocabularies as the specification lists them
NetworkVocabulary ==
  {kw_localentrynotfound, kw_offlinemode, kw_cannot_reach,
   kw_connection, kw_ssl, kw_certificate}

ShortAudioVocabulary ==
  {kw_too_short, kw_assertionerror, kw_num_splits}

Matches(msg, vocabulary) ==
  \E kw \in vocabulary : Contains(lower(msg), kw)

\* C1: whenever clone_voice returns, an existing, non-empty file is at the
\* requested output path.
C1_OutputPresentOnReturn ==
  pc = "done" => out.state = "full"

\* C2: clone_voice never raises to its caller, whatever the inputs and the
\* outcomes of the stages, the final copy included.
C2_NeverRaises ==
  pc # "raised"

\* C2 witness: every stage and both copies failed, and the call returned.
C2_Witness ==
  /\ pc = "done"
  /\ Attempts("copy") = 2
  /\ \A i \in 1..Len(StageEntries) : Failed(StageEntries[i].outcome)
  /\ out.state = "absent"

\* C3: an online or offline attempt counts as success (the chain returns on
\* it) only if the backend exited with code 0 and left a non-empty output.
C3_SuccessNeedsOutputFile ==
  \A i \in 1..Len(StageEntries) :
    ( /\ pc = "done"
      /\ i = Len(StageEntries)
      /\ StageEntries[i].stage \in {"online", "offline"} )
    => StageEntries[i].outcome = "ok" /\ out.state = "full"

\* C4: the chain is linear: a stage is attempted only when the stage
\* attempted right before it failed; a success is the last stage attempted
\* and ends the call; the output a succeeding stage wrote is the output.
C4_LinearChain ==
  LET s == StageEntries
  IN  /\ \A i \in 2..Len(s) : Failed(s[i - 1].outcome)
      /\ \A i \in 1..Len(s) :
           Succeeded(s[i].outcome) => i = Len(s) /\ pc = "done"
      /\ \A i \in 1..Len(s) :
           s[i].outcome = "ok" => out.writer = s[i].stage /\ out.state # "absent"

\* C4 witness: the spectral stage succeeded after two failed stages.
C4_Witness ==
  /\ pc = "done"
  /\ Len(StageEntries) >= 3
  /\ StageEntries[Len(StageEntries)] = [stage |-> "spectral", outcome |-> "ok"]
  /\ out.writer = "spectral"

\* C5 as stated: every stage is attempted at most once per call and control
\* never returns from a later stage to an earlier one.
C5_EachStageAtMostOnce ==
  /\ \A st \in Stages : Attempts(st) <= 1
  /\ \A i, j \in 1..Len(StageEntries) :
       i < j => StageRank(StageEntries[i].stage) < StageRank(StageEntries[j].stage)

C5_BoundedLog ==
  /\ \A st \in Stages \ {"copy"} : Attempts(st) <= 1
  /\ Attempts("copy") <= 2
  /\ \A i, j \in 1..Len(StageEntries) :
       i < j => StageRank(StageEntries[i].stage) <= StageRank(StageEntries[j].stage)
  /\ Len(StageEntries) <= 7

\* C5 amended: every call terminates; every stage but the verbatim copy is
\* attempted at most once, the verbatim copy at most twice, and control
\* never returns from a later stage to an earlier one.
C5_TerminatesCopyTwice ==
  /\ []C5_BoundedLog
  /\ <>(pc = "done")

\* C5 witness: the verbatim copy was attempted twice in one call.
C5_Witness ==
  /\ pc = "done"
  /\ Attempts("copy") = 2
  /\ Attempts("basic") = 1

\* C6: a backend failure whose stderr contains "LocalEntryNotFound: cannot
\* reach huggingface.co" is followed by the offline retry, not by the
\* minimal clone.
C6_NetworkStderrRetriesOffline ==
  ( /\ pc = "done"
    /\ OutcomeOf("online") = "fail"
    /\ Contains(stderr, err_network) )
  => Transition = "offline"

\* C7: two calls whose backend failed the same way with the same error text
\* take the same transition, whatever their file names.
C7_TransitionIgnoresFileNames ==
  ( /\ prev.trans # "none"
    /\ Transition # "none"
    /\ prev.err = stderr
    /\ prev.kind = OutcomeOf("online") )
  => Transition = prev.trans

C10_NormalizeBeforeBackend ==
  /\ \A i \in 1..Len(log) :
       log[i].stage \in {"online", "offline"}
       => /\ \E j \in 1..(i - 1) : log[j].stage = "norm_tts"
          /\ \E j \in 1..(i - 1) : log[j].stage = "norm_ref"
  /\ Attempted("online")
       => /\ extended_tts.min = 3000
          /\ extended_ref.min = 5000
          /\ backendIn.tts = PathOf(tts_wav_path(name), extended_tts)
          /\ backendIn.ref = PathOf(reference_wav_path(name), extended_ref)

\* C10 witness: the backend ran on two extended files.
C10_Witness ==
  /\ Attempted("online")
  /\ extended_tts.path = "extended"
  /\ extended_ref.path = "extended"
  /\ backendIn.tts = extended_path(tts_wav_path(name))

\* every stage before the verbatim copy that was attempted has failed
AllPriorFailed ==
  \A i \in 1..Len(StageEntries) :
    StageEntries[i].stage # "copy" => Failed(StageEntries[i].outcome)

\* a verbatim copy of the TTS file as it is on disk
VerbatimTts ==
  [state |-> IF tts.state = "ok" THEN "full" ELSE "empty", writer |-> "copy",
   content |-> "tts"]

ListFiles == {list_file(1), list_file(2)}

\* C12: no step leaks a temporary file; in particular, once
\* extend_short_audio has returned, the concat list it wrote is deleted.
C12_NoTemporaryLeft ==
  (e_pc = "returned" /\ e_asset.dur > 0) => e_fs \cap ListFiles = {}

\* a run that ended because cloning, silence detection or video generation failed
EndedInFailure(i) ==
  /\ p_pc[i] = "exit1"
  /\ p_err[i] \in {"no_cloned_audio", "no_silence", "video_error"}

\* C13: once a run has completed, its per-run directories are removed,
\* also when cloning, silence detection or video generation failed.
C13_RunDirsRemovedAfterFailure ==
  \A i \in Runs : EndedInFailure(i) => i \notin p_dirs

\* C14: two runs in separate processes never use the same working
\* directory or temporary file, also for the same name and base video.
C14_RunsShareNothing ==
  \A i \in Runs : \A j \in Runs :
    i # j => p_touched[i] \cap p_touched[j] = {}

\* the cases in which extend_short_audio cannot deliver an extended file
ExtendFailureCase ==
  \/ ~e_env.probeOk
  \/ e_asset.state # "ok"
  \/ e_asset.dur = 0
  \/ (e_asset.dur < e_min /\ ~e_env.concatOk /\ ~e_env.loopOk)

\* C15: extend_short_audio never fails outward; on a missing file, a failed
\* or unparsable probe, failure of both transform commands or any other
\* internal error it returns the input path, and the original file is
\* unchanged.
C15_ExtendNeverFailsOutward ==
  /\ e_pc # "raised"
  /\ (e_pc = "returned" /\ ExtendFailureCase)
       => /\ e_last.ret = e_path
          /\ e_path \notin e_last.written
          /\ (e_asset.state # "missing" <=> e_path \in e_fs)

\* C15 witness: both transform commands failed and the input path came back.
C15_Witness ==
  /\ e_pc = "returned"
  /\ e_last.ran = {"concat", "loop"}
  /\ e_last.ret = e_path
  /\ e_asset.dur = 1200

ProbedValue == e_asset.state = "ok" /\ e_env.probeOk

\* C16 as stated: the returned path names an existing file of duration at
\* least m whenever the input duration is below m, and the original asset
\* with its original duration whenever it is not.
C16_ExtendedWheneverNeeded ==
  (e_pc = "returned" /\ ProbedValue /\ e_asset.dur > 0)
  => IF e_asset.dur < e_min
       THEN e_last.ret \in e_fs /\ e_last.dur >= e_min
       ELSE e_last.ret = e_path /\ e_last.dur = e_asset.dur

\* C16 amended: when the probed duration d has 0 < d < m and one of the two
\* transform commands exits with code 0, the returned path names an
\* existing file of duration at least m; when d >= m it is the original
\* asset with its original duration; when the probe fails, d = 0 or both
\* commands fail it is the original path.
C16_ExtendedWhenACommandSucceeds ==
  e_pc = "returned"
  => /\ ( /\ ProbedValue
          /\ 0 < e_asset.dur
          /\ e_asset.dur < e_min
          /\ (e_env.concatOk \/ e_env.loopOk) )
        => /\ e_last.ret = extended_path(e_path)
           /\ e_last.ret \in e_fs
           /\ e_last.dur >= e_min
     /\ (ProbedValue /\ e_asset.dur >= e_min)
        => /\ e_last.ret = e_path
           /\ e_last.dur = e_asset.dur
           /\ e_path \in e_fs
     /\ ExtendFailureCase => e_last.ret = e_path

\* C16 witness: a 1.2 s file extended for a 3 s threshold.
C16_Witness ==
  /\ e_pc = "returned"
  /\ e_asset.dur = 1200
  /\ e_min = 3000
  /\ e_last.ext = "extended"
  /\ e_last.dur = 3000

\* C17: applying extend_short_audio to its own result returns the same
\* path as the first application and leaves no further file.
C17_Idempotent ==
  (e_pc = "returned" /\ e_n = 2 /\ e_mode = "reapply" /\ e_asset.dur > 0)
  => /\ e_last.ret = e_first.ret
     /\ e_last.left \subseteq e_first.left

\* C18: when the probed duration d satisfies d >= min_seconds, equality
\* included, extend_short_audio returns the input path, runs no command and
\* creates or modifies no file.
C18_NoOpWhenLongEnough ==
  (e_pc = "returned" /\ ProbedValue /\ e_asset.dur >= e_min)
  => /\ e_last.ret = e_path
     /\ e_last.ran = {}
     /\ e_last.written = {}
     /\ e_last.left = {}

\* C18 witness: a file of exactly the threshold came back untouched.
C18_Witness ==
  /\ e_pc = "returned"
  /\ ProbedValue
  /\ e_asset.dur = e_min
  /\ e_last.ret = e_path
  /\ e_last.ran = {}

\* C19: a probed duration d <= 0 is treated as a probe failure: the input
\* path is returned, no repeat count is computed, no concat list is written
\* and no transform command is run.
C19_NonPositiveDurationSkips ==
  (e_pc = "returned" /\ ProbedValue /\ e_asset.dur <= 0)
  => /\ e_last.ret = e_path
     /\ ~e_last.counted
     /\ e_last.written = {}
     /\ e_last.ran = {}

\* what the caller of extend_short_audio receives
Visible(r) == [own_input |-> r.ext = "orig", end |-> r.end]

\* C20: probe failures of different kinds are distinguishable by the
\* caller; in particular a missing asset (ffprobe exits non-zero) and an
\* unparsable or empty duration output.
C20_FailureKindsVisible ==
  ( /\ e_pc = "returned"
    /\ e_n = 2
    /\ e_mode = "other"
    /\ e_first.kind \in {"nonzero_exit", "unparsable"}
    /\ e_last.kind \in {"nonzero_exit", "unparsable"}
    /\ e_first.kind # e_last.kind )
  => Visible(e_first) # Visible(e_last)

\* the two input files of the current call
Originals == {tts_wav_path(name), reference_wav_path(name)}

\* C21: no stage edits a file in place: nothing is written to or deleted at
\* the path of the TTS file or of the reference file, the backend's output
\* path is none of its input paths, and only files the call created are
\* deleted.
C21_NoInPlaceEdit ==
  /\ fx.written \cap Originals = {}
  /\ fx.deleted \cap Originals = {}
  /\ fx.deleted \subseteq fx.written
  /\ backendIn # NoInputs =>
       cloned_wav_path(name) \notin {backendIn.tts, backendIn.ref}

\* C21 witness: a finished call that used the TTS file as it was, extended
\* the reference, deleted the extended file and wrote the output.
C21_Witness ==
  /\ pc = "done"
  /\ extended_tts.path = "orig"
  /\ extended_ref.path = "extended"
  /\ extended_path(reference_wav_path(name)) \in fx.deleted
  /\ cloned_wav_path(name) \in fx.written

\* the transcript of the current trimming operation, normalized
NormalizedWords == [k \in 1..Len(t_in.words) |-> normalize(t_in.words[k].word)]

TargetTokens == split(lower(t_in.target_name))

\* similarity of two texts is at least the threshold (in tenths)
Similar(a, b, tenths) ==
  Len(a) + Len(b) > 0 /\ 20 * matching(a, b) >= tenths * (Len(a) + Len(b))

\* word j is a near-duplicate of the earlier word i
Qualifies(i, j) ==
  /\ i < j
  /\ NormalizedWords[i] # <<>>
  /\ Similar(NormalizedWords[j], NormalizedWords[i], 8)

HasRepeatedWord ==
  \E i \in 1..Len(t_in.words), j \in 1..Len(t_in.words) : Qualifies(i, j)

HasNameMatch ==
  \E k \in 1..Len(TargetTokens), m \in 1..Len(t_in.words) :
    Similar(NormalizedWords[m], TargetTokens[k], 6)

FirstSucceeding ==
  IF HasRepeatedWord THEN "repeated-word"
  ELSE IF HasNameMatch THEN "name-match"
  ELSE "fallback-middle"

\* word times as Whisper usually reports them: no word starts before the
\* previous one has ended
WordsInOrder ==
  \A k \in 1..(Len(t_in.words) - 1) : t_in.words[k].end <= t_in.words[k + 1].start

\* C22: the selected window satisfies 0 <= start < end <= duration of the
\* audio, whichever strategy selected it.
C22_WindowInsideAudio ==
  (t_pc = "returned" /\ WordsInOrder) =>
    /\ 0 <= t_out.start
    /\ t_out.start < t_out.end
    /\ t_out.end <= t_in.length

\* C23: the repeated-word strategy selects the first qualifying pair in
\* scan order: the smallest i with a qualifying later word and the smallest
\* qualifying j after it.
C23_EarliestPairWins ==
  (t_pc = "returned" /\ WordsInOrder /\ t_out.strategy = "repeated-word") =>
    /\ \E j \in 1..Len(t_in.words) : Qualifies(t_out.i, j)
    /\ \A i \in 1..(t_out.i - 1) : \A j \in 1..Len(t_in.words) : ~Qualifies(i, j)
    /\ Qualifies(t_out.i, t_out.j)
    /\ \A j \in 1..(t_out.j - 1) : ~Qualifies(t_out.i, j)

Scenario3 == all_words(<<raw_namaskar, raw_jay, raw_nameskar>>, <<0, 1200>>, 0)

\* C25: the repeated-word window is [end of word i, start of word j]; for
\* namaskar(0.0-0.5), jay(0.5-0.8), nameskar(2.0-2.5) it is (0.5, 2.0).
C25_WindowBetweenThePair ==
  /\ (t_pc = "returned" /\ t_out.strategy = "repeated-word") =>
       /\ t_out.start = t_in.words[t_out.i].end
       /\ t_out.end = t_in.words[t_out.j].start
  /\ (t_pc = "returned" /\ t_in.words = Scenario3) =>
       /\ t_out.strategy = "repeated-word"
       /\ t_out.start = 500
       /\ t_out.end = 2000

\* C25 witness: the scenario's transcript has been trimmed.
C25_Witness ==
  /\ t_pc = "returned"
  /\ t_in.words = Scenario3
  /\ t_out.strategy = "repeated-word"

\* the window of the given length (tenths of a millisecond) is centred on
\* the middle of the audio
CentredFallback ==
  /\ t_out.strategy = "fallback-middle"
  /\ t_out.length10 = Min(30000, 4 * t_in.length)
  /\ 2 * t_out.start10 + t_out.length10 = 10 * t_in.length
  /\ t_out.start = t_out.start10 \div 10
  /\ t_out.end = (t_out.start10 + t_out.length10) \div 10

NotLeading == SelectSeq(s_in, LAMBDA seg : seg[1] >= 500)

\* C27: whenever no qualifying silence run exists, because none was
\* detected or because every detected run starts before 500 ms, the
\* splicer fails with the no-silence error and with no other error.
C27_NoSilenceErrorOnly ==
  (s_pc = "done" /\ NotLeading = <<>>) => s_out.status = "no_silence"

\* C28: the splice point is the start of the first run that does not start
\* before 500 ms, advanced by 500 ms; a run starting at exactly 500 ms
\* counts, and a 600 ms run starting at 1.0 s gives 1.5 s.
C28_FirstRunNotBefore500 ==
  /\ (s_pc = "done" /\ s_out.status = "ok") =>
       /\ NotLeading # <<>>
       /\ s_out.start_ms = NotLeading[1][1] + 500
  /\ (s_pc = "done" /\ s_in = <<<<1000, 1600>>>>) =>
       /\ s_out.status = "ok"
       /\ s_out.start_ms = 1500

\* C29: a run exits with code 0 exactly when it produced the video and
\* with code 1 when the base video is missing or anything else failed, and
\* after a successful run the last line on stdout is the video's path.
C29_ExitCodeAndLastLine ==
  \A i \in Runs :
    /\ p_pc[i] = "exit0" =>
         /\ p_err[i] = "none"
         /\ p_stdout[i] # <<>>
         /\ p_stdout[i][Len(p_stdout[i])] = final_video_path(p_in[i].name, p_ts[i])
    /\ p_pc[i] = "exit1" => p_err[i] # "none"
    /\ (p_pc[i] \in {"exit0", "exit1"} /\ p_in[i].video.state = "missing") =>
         p_pc[i] = "exit1"
    /\ p_err[i] # "none" => p_pc[i] = "exit1"

\* C29 witness: one run succeeded and another ended on a missing video.
C29_Witness ==
  \E i \in Runs, j \in Runs :
    /\ p_pc[i] = "exit0"
    /\ p_pc[j] = "exit1"
    /\ p_in[j].video.state = "missing"

\* C30: for 0 < d < m the repeat count is at least 2, repeat_count * d
\* exceeds m and (repeat_count - 1) * d does not: the fewest copies that
\* cover the trim length.
C30_RepeatCountCovers ==
  (e_pc = "returned" /\ e_last.counted /\ 0 < e_asset.dur /\ e_asset.dur < e_min) =>
    /\ e_last.repeat >= 2
    /\ e_last.repeat * e_asset.dur > e_min
    /\ (e_last.repeat - 1) * e_asset.dur <= e_min

\* C30 witness: a 1.2 s file extended to 3.0 s with three copies, and a
\* duration that divides the threshold.
C30_Witness ==
  /\ e_pc = "returned"
  /\ e_last.counted
  /\ \/ e_asset.dur = 1200 /\ e_min = 3000 /\ e_last.repeat = 3
     \/ e_asset.dur = 1500 /\ e_min = 3000 /\ e_last.repeat = 3

\* C31: the loop command is run only after the concat command was run and
\* exited non-zero, never after a concat that exited zero, and it loops the
\* source repeat_count - 1 more times, cut at the minimum duration.
C31_LoopOnlyAfterConcatFails ==
  e_pc \in {"returned", "raised"} =>
    /\ "loop" \in e_last.ran =>
         /\ "concat" \in e_last.ran
         /\ e_last.concat = "nonzero"
         /\ e_last.counted
         /\ e_last.loops = e_last.repeat - 1
         /\ e_last.loop_t = e_min
    /\ e_last.concat = "zero" => "loop" \notin e_last.ran

\* C31 witness: a 1.2 s file, the concat fails and the loop command extends
\* it with two more copies
C31_Witness ==
  /\ e_pc = "returned"
  /\ e_asset.dur = 1200
  /\ e_min = MIN_TTS_MS
  /\ e_last.ran = {"concat", "loop"}
  /\ e_last.loops = 2
  /\ e_last.ext = "extended"

\* C32: the returned path is the input path or the input path with its
\* extension replaced by "_extended.wav"; it is the latter exactly when the
\* concat or the loop command exited with code 0; so the caller's test
\* "returned path differs from input path" names the extended file this
\* call left on disk, and names nothing when the call left none.
C32_ReturnedPathTellsExtended ==
  e_pc \in {"returned", "raised"} =>
    /\ e_last.ret \in {e_path, extended_path(e_path)}
    /\ (e_last.ret = extended_path(e_path))
         = (e_last.concat = "zero" \/ e_last.loop = "zero")
    /\ (e_last.ret # e_path) = (e_last.concat = "zero" \/ e_last.loop = "zero")
    /\ cleanup_targets(e_last.ret, e_path) = e_last.left \cap {extended_path(e_path)}

\* C32 witness: a 1.5 s TTS file, the concat fails, the loop command exits
\* 0 and "tts/Atul_extended.wav" is returned and is on disk
C32_Witness ==
  /\ e_pc = "returned"
  /\ e_path = tts_wav_path(name_Atul)
  /\ e_asset.dur = 1500
  /\ e_last.loop = "zero"
  /\ e_last.ret = extended_path(e_path)
  /\ e_last.ret # e_path
  /\ e_last.ret \in e_fs

\* the message of the online attempt's exception
OnlineMessage ==
  str_error(OutcomeOf("online"), backendIn.tts, backendIn.ref, cloned_wav_path(name))

\* C33: after a failed offline attempt the message that is classified is the
\* online attempt's, and the minimal clone is tried if and only if that
\* message matches the short-audio vocabulary.
C33_OnlineErrorDrivesAfterOffline ==
  (OutcomeOf("offline") \in {"fail", "timeout"}) =>
    /\ error_msg = OnlineMessage
    /\ pc # "on_error" =>
         ((pc = "minimal" \/ Attempted("minimal")) = IsShortAudioError(OnlineMessage))

\* C33 witness: the offline attempt timed out and the minimal clone was tried
C33_Witness ==
  /\ OutcomeOf("offline") = "timeout"
  /\ Attempted("minimal")
  /\ pc = "done"

\* C34: after an online attempt that timed out the offline attempt is not
\* made, the extended files are deleted and the call goes on with the
\* fallback stages.
C34_TimeoutSkipsOffline ==
  OutcomeOf("online") = "timeout" =>
    /\ pc # "offline"
    /\ ~Attempted("offline")
    /\ pc # "on_error" =>
         /\ extended_cleanup(name, extended_tts, extended_ref) \subseteq fx.deleted
         /\ temps = {}
         /\ pc \in {"minimal", "advanced", "ffmpeg", "basic", "basic_copy",
                    "final_copy", "done"}
    /\ pc = "done" => Transition \in {"minimal", "spectral", "basic", "copy"}

\* C34 witness: the online attempt on an extended TTS file times out for a
\* name whose message has a network keyword; the extended file is deleted
\* and the spectral fallback produces the output
C34_Witness ==
  /\ OutcomeOf("online") = "timeout"
  /\ IsNetworkError(error_msg)
  /\ extended_tts.path = "extended"
  /\ extended_path(tts_wav_path(name)) \in fx.deleted
  /\ Transition = "spectral"
  /\ pc = "done"

\* the primary backend has failed for good: online failed and the offline
\* retry, where there was one, did too
PrimaryFailed ==
  /\ OutcomeOf("online") \in {"fail", "timeout"}
  /\ OutcomeOf("offline") \notin {"ok", "ok_nofile"}
  /\ pc \notin {"offline", "on_error"}

\* C35: once the primary backend has failed the extended files are deleted
\* before a fallback stage opens anything, and the fallback stages open the
\* original TTS and reference files only, never a path that was deleted.
C35_FallbacksReadOriginals ==
  /\ PrimaryFailed =>
       extended_cleanup(name, extended_tts, extended_ref) \subseteq fx.deleted
  /\ (fx.read # {} /\ Attempted("online")) =>
       extended_cleanup(name, extended_tts, extended_ref) \subseteq fx.deleted
  /\ fx.read \subseteq Originals
  /\ fx.read \cap fx.deleted = {}

\* C35 witness: both files were extended, the backend failed, and the
\* spectral fallback read the two originals after the extended files went
C35_Witness ==
  /\ PrimaryFailed
  /\ extended_tts.path = "extended"
  /\ extended_ref.path = "extended"
  /\ {extended_path(tts_wav_path(name)), extended_path(reference_wav_path(name))}
       \subseteq fx.deleted
  /\ fx.read = Originals
  /\ Transition = "spectral"
  /\ pc = "done"

\* the stage tried right after the minimal clone
AfterMinimal ==
  LET s == StageEntries
      k == CHOOSE k \in 1..Len(s) : s[k].stage = "minimal"
  IN  IF Attempted("minimal") /\ k < Len(s) THEN s[k + 1].stage ELSE "none"

\* C36: when the backend failed with a short-audio message and the minimal
\* clone fails too, the call goes on with the spectral fallback, the stage
\* that follows a backend failure of any other class.
C36_MinimalFailureGoesOn ==
  OutcomeOf("minimal") = "fail" =>
    /\ IsShortAudioError(error_msg)
    /\ pc \in {"advanced", "ffmpeg", "basic", "basic_copy", "final_copy", "done"}
    /\ AfterMinimal \in {"none", "spectral"}
    /\ pc \in {"basic", "basic_copy", "final_copy", "done"} => AfterMinimal = "spectral"

\* C36 witness: the minimal clone failed and the spectral fallback then
\* produced the output
C36_Witness ==
  /\ OutcomeOf("minimal") = "fail"
  /\ AfterMinimal = "spectral"
  /\ OutcomeOf("spectral") = "ok"
  /\ out.writer = "spectral"
  /\ pc = "done"

\* C37: whenever the splicer selects a run, the splice point (the run's
\* start + 500 ms) lies inside that run: run start < splice point <= run end.
C37_SplicePointInsideRun ==
  (s_pc = "done" /\ s_out.status = "ok") =>
    \E k \in 1..Len(s_in) :
      /\ keeps(s_in[k])
      /\ \A m \in 1..(k - 1) : ~keeps(s_in[m])
      /\ s_in[k][1] < s_out.start_ms
      /\ s_out.start_ms <= s_in[k][2]

\* C37 witness: the selected run is exactly 500 ms long and the splice point
\* is its end
C37_Witness ==
  /\ s_pc = "done"
  /\ s_out.status = "ok"
  /\ s_in = <<<<0, 500>>, <<1000, 1500>>>>
  /\ s_out.start_ms = 1500

\* C38: after a successful run the file at the printed result path is
\* still on disk: the removal of the run's directories and the deletion of
\* the TTS, cloned, trimmed and reference files leave the final video.
C38_FinalVideoSurvivesCleanup ==
  \A i \in Runs :
    p_pc[i] = "exit0" =>
      \E e \in p_disk :
        /\ e.file = p_stdout[i][Len(p_stdout[i])]
        /\ e.file = final_video_path(p_in[i].name, p_ts[i])

\* C38 witness: both runs succeeded, the directories of both were removed,
\* and a final video is on disk
C38_Witness ==
  /\ \A i \in Runs : p_pc[i] = "exit0"
  /\ p_dirs = {}
  /\ p_disk # {}
  /\ \E i \in Runs : p_in[i].name = 1 /\ p_ts[i] = 2

====
